---- MODULE Spec2Model ----
(***************************************************************************)
(* A model of the rate limiters of src/api_gateway/middleware/             *)
(* rate_limiter.py: the sliding-window log (RateLimiter), its hierarchical *)
(* composition (HierarchicalRateLimiter), its adaptive variant             *)
(* (AdaptiveRateLimiter) and the token bucket (TokenBucketRateLimiter),    *)
(* over a model of the Redis commands they issue, and of the query handler *)
(* of src/api_gateway/app.py, which calls the sliding-window check.        *)
(*                                                                         *)
(* Time is counted in whole ticks.  A sorted set is a set of               *)
(* [member, score] records with pairwise distinct members, a hash is a     *)
(* record of fields.  Every await of the code is one step of a caller, so  *)
(* that callers interleave exactly where the code can be interleaved.      *)
(***************************************************************************)
EXTENDS Integers, FiniteSets, Sequences, TLC

\* ------------------------------------------------------------------ bounds
MaxTime == 3
MaxCalls == 4
MaxFaultCalls == 2
MaxBucketCalls == 3
MaxRaceCalls == 2
MaxWindow == 2
MaxRequests == 2
MaxSkew == 1
MaxCapacity == 2
MaxRate == 2

Time == 0..MaxTime
Procs == {"p1", "p2"}

VARIABLES
    now,            \* the store's clock
    zsets,          \* key -> sorted set
    ttl,            \* key -> the time the key expires at, or NoTTL
    proc,           \* caller -> the call it is in, its locals and its result
    active,         \* the callers that issue calls
    window_seconds, \* the window the key is checked with
    max_requests,   \* the quota the key is checked with
    limits,         \* the hierarchical policy: a sequence of <<window, max>>
    load_factor,    \* AdaptiveRateLimiter.load_factor, in hundredths
    lags,           \* how far behind the store's clock a caller's clock may read
    faults,         \* the outcomes a store round trip may have
    budget,         \* how many calls a run starts
    capacity,       \* the capacity the bucket is checked with
    refill_rate,    \* the refill rate the bucket is checked with, tokens a tick
    bucket,         \* the hash of the bucket's key
    bucket_ttl,     \* the time the bucket's key expires at, or NoTTL
    tb,             \* caller -> the check_token_bucket call it is in
    calls,          \* calls started so far
    allowed         \* key -> timestamp -> the calls that were let through with
                    \* that timestamp on that key and met no store error

vars == <<now, zsets, ttl, proc, active, window_seconds, max_requests, limits,
          load_factor, lags, faults, budget, capacity, refill_rate, bucket,
          bucket_ttl, tb, calls, allowed>>

NoTTL == -1

\* ------------------------------------------------------------ Redis commands
\* str(current_time): the member a timestamp is stored under
Str(t) == [repr |-> t]

\* the range given as (max, min): with max > min it holds no score
ZRemRangeByScoreSwapped(z, lo, hi) == {e \in z : ~(hi <= e.score /\ e.score <= lo)}

ZRemRangeByScore(z, lo, hi) == {e \in z : ~(lo <= e.score /\ e.score <= hi)}

ZCard(z) == Cardinality(z)

\* ZADD key {member: score}: a member already present only has its score set
ZAdd(z, member, score) ==
    {e \in z : e.member # member} \cup {[member |-> member, score |-> score]}

\* ZREM leaving the member in place
ZRemNothing(z, member) == z

ZRem(z, member) == {e \in z : e.member # member}

\* EXPIRE leaving the key's time to live as it was
ExpireNever(z, old, seconds) == old

\* EXPIRE with a time to live one second short
ExpireShort(z, old, seconds) == IF z = {} THEN old ELSE now + seconds - 1

\* EXPIRE key seconds: no effect on a key that does not exist
Expire(z, old, seconds) == IF z = {} THEN old ELSE now + seconds

\* a sorted set that becomes empty is no key any more, and its TTL goes with it
KeyTTL(z, t) == IF z = {} THEN NoTTL ELSE t

\* ------------------------------------------------------------------- keys
UserKey == <<"user", 0>>

\* one key for every window
HierKeyNoWindow(window) == <<"base", 0>>

\* f"{base_key}:{window_seconds}"
HierKey(window) == <<"base", window>>

\* time.time() as a caller may read it while the store's clock shows now
\* (a read stays within Time as long as the store's clock does)
ClockReads ==
    {t \in {now - d : d \in lags} : t >= 0 /\ (now <= MaxTime => t <= MaxTime)}

\* ------------------------------------------------- RateLimiter, pure parts
\* the four queued commands of check_rate_limit, applied as one transaction:
\* ZREMRANGEBYSCORE key 0 (current_time - window), ZCARD, ZADD, EXPIRE
\* (EXPIRE with a timeout that is not positive deletes the key at once)
PipelineExecute(z, t, current_time, window) ==
    LET pruned == ZRemRangeByScore(z, 0, current_time - window)
        added == ZAdd(pruned, Str(current_time), current_time)
    IN  [zset |-> IF window <= 0 THEN {} ELSE added,
         ttl |-> IF window <= 0 THEN NoTTL ELSE Expire(added, t, window),
         current_requests |-> ZCard(pruned)]

\* the handler failing closed
FailClosed == FALSE

\* what the handler of lines 75-78 returns when the store raised
FailOpen == TRUE

\* the comparison with > for >=
RateLimitedStrict(current_requests, max) == current_requests > max

\* if current_requests >= max_requests: the request is rate limited
RateLimited(current_requests, max) == current_requests >= max

\* ZRANGE key 0 0 WITHSCORES: the entry of the lowest score, if any
ZRangeFirst(z) == {e \in z : \A f \in z : e.score <= f.score}

\* the reset time counted from the query whatever the key holds
OldestTimeNow(z, current_time) == current_time

\* oldest_requests[0][1] if oldest_requests else current_time
OldestTime(z, current_time) ==
    IF z = {} THEN current_time ELSE (CHOOSE e \in ZRangeFirst(z) : TRUE).score

Max2(a, b) == IF a >= b THEN a ELSE b

\* the dictionary get_rate_limit_info returns
LimitInfo(max, current_requests, oldest_time, window) ==
    [limit |-> max,
     remaining |-> Max2(0, max - current_requests),
     reset |-> oldest_time + window,
     window |-> window]

\* the handler reporting a quota used up
ErrorInfoNone(max, current_time, window) ==
    [limit |-> max, remaining |-> 0, reset |-> current_time + window,
     window |-> window]

\* the dictionary get_rate_limit_info returns when the store raised
ErrorInfo(max, current_time, window) ==
    [limit |-> max, remaining |-> max, reset |-> current_time + window,
     window |-> window]

NoInfo == [limit |-> -1, remaining |-> -1, reset |-> -1, window |-> -1]

\* --------------------------------------------------------------- callers
\* what a run fixes at its start
params == <<active, window_seconds, max_requests, limits, load_factor, lags,
            faults, budget, capacity, refill_rate>>

\* the token bucket's part of the state, and the sliding windows' part
tbvars == <<bucket, bucket_ttl, tb>>
swvars == <<zsets, ttl, proc, allowed>>

Windows == 1..MaxWindow
Quotas == 1..MaxRequests

\* the hierarchical policies checked, each a list of (window_seconds,
\* max_requests): a short window of the smaller quota first; the same with two
\* timestamps to a short window; two WindowSpecs of one window; the longer
\* window first
Policies ==
    {<< <<3, 2>>, <<4, 3>> >>,
     << <<2, 1>>, <<3, 2>> >>,
     << <<2, 2>>, <<2, 1>> >>,
     << <<3, 2>>, <<2, 1>> >>}

PolicyWindows == UNION {{pol[i][1] : i \in DOMAIN pol} : pol \in Policies}

Keys == {UserKey} \cup {HierKey(w) : w \in PolicyWindows}

\* the outcomes of one store round trip: it succeeds; it raises and nothing
\* was applied; it raises after the store applied it (the reply was lost)
Outcomes == {"ok", "refused", "lost"}

\* a read has nothing to apply: it succeeds or it raises
ReadOk == faults \cap {"ok", "refused"}

IdleProc ==
    [op |-> "none", pc |-> "idle", key |-> UserKey, window |-> 0, max |-> 0,
     current_time |-> 0, current_requests |-> 0, idx |-> 0, stamps |-> <<>>,
     counts |-> <<>>, errs |-> <<>>,
     ret |-> FALSE, err |-> FALSE, info |-> NoInfo, info_err |-> FALSE,
     cpu_usage |-> 0, memory_usage |-> 0,
     after_reset |-> FALSE, prev |-> NoInfo, prev_time |-> 0, removed |-> 0,
     query_empty |-> FALSE, status |-> 0, reached |-> {},
     reset_at |-> "none"]

CanStart(p) ==
    /\ p \in active
    /\ proc[p].pc \in {"idle", "done"}
    /\ calls < budget

\* where another caller's reset_rate_limit stands to the check_rate_limit
\* call p starts: "before" when it was the last call on the key, "stale" when
\* p has checked since, "none" when there is none
ResetBefore(p) ==
    IF \E r \in Procs \ {p} :
            proc[r].op = "reset" /\ proc[r].pc = "done" /\ ~proc[r].err
    THEN IF proc[p].reset_at \in {"none", "after"} THEN "before" ELSE "stale"
    ELSE "none"

\* the same for a caller q while another caller's reset_rate_limit deletes the
\* key: "during" a check_rate_limit call under way, "after" one that is over
ResetMark(q) ==
    IF q.op = "check" /\ q.pc \in {"execute", "zrem"}
    THEN [q EXCEPT !.reset_at = "during"]
    ELSE IF q.op = "check" /\ q.pc = "done"
    THEN [q EXCEPT !.reset_at = "after"]
    ELSE q

\* the caller's last call was a reset_rate_limit that returned True on a key
\* holding max_requests entries or more
ExhaustedReset(q) ==
    /\ q.op = "reset" /\ q.pc = "done" /\ q.ret
    /\ q.current_requests >= max_requests

\* timestamp -> count, with one more call counted at each of the stamps
Counted(a, keys, stamps) ==
    [k \in Keys |-> [t \in Time |->
        a[k][t] + Cardinality({i \in DOMAIN keys : keys[i] = k /\ stamps[i] = t})]]

\* the keys of the first n WindowSpecs of the policy
PolicyKeys(n) == [i \in 1..n |-> HierKey(limits[i][1])]

\* the loop of check_hierarchical_limits going on to the next WindowSpec after
\* a denial, and returning only after the last
AfterCheckNoStop(q, r, e, t) ==
    LET seen == [q EXCEPT !.stamps = Append(q.stamps, q.current_time),
                          !.counts = Append(q.counts, q.current_requests),
                          !.errs = Append(q.errs, e),
                          !.err = q.err \/ e]
    IN
    IF q.op # "hier"
    THEN [seen EXCEPT !.pc = "done", !.ret = r]
    ELSE IF q.idx = Len(limits)
    THEN IF r THEN [seen EXCEPT !.pc = "done", !.ret = TRUE]
         ELSE [seen EXCEPT !.pc = "info_prune", !.current_time = t, !.ret = FALSE]
    ELSE [seen EXCEPT !.pc = "execute", !.idx = q.idx + 1,
                      !.key = HierKey(limits[q.idx + 1][1]),
                      !.window = limits[q.idx + 1][1],
                      !.max = limits[q.idx + 1][2],
                      !.current_time = t]

\* the query handler letting every request through
RejectsNever(r) == FALSE

\* app.py line 262: if not await rate_limiter.check_rate_limit(...)
Rejects(r) == ~r

\* app.py lines 262-271, once check_rate_limit has returned r: HTTP 429 for a
\* denied request, HTTP 400 for an empty query, else on to the cache lookup
QueryAfterCheck(q, r) ==
    IF Rejects(r) THEN [q EXCEPT !.pc = "done", !.ret = r, !.status = 429]
    ELSE IF q.query_empty THEN [q EXCEPT !.pc = "done", !.ret = r, !.status = 400]
    ELSE [q EXCEPT !.pc = "cache", !.ret = r]

\* the loop going on to the next WindowSpec on the key of the last one
AfterCheckSameKey(q, r, e, t) ==
    LET seen == [q EXCEPT !.stamps = Append(q.stamps, q.current_time),
                          !.counts = Append(q.counts, q.current_requests),
                          !.errs = Append(q.errs, e),
                          !.err = q.err \/ e, !.info_err = e]
    IN
    IF q.op = "query"
    THEN QueryAfterCheck(seen, r)
    ELSE IF q.op # "hier"
    THEN [seen EXCEPT !.pc = "done", !.ret = r]
    ELSE IF ~r
    THEN [seen EXCEPT !.pc = "info_prune", !.current_time = t, !.ret = FALSE]
    ELSE IF q.idx = Len(limits)
    THEN [seen EXCEPT !.pc = "done", !.ret = TRUE]
    ELSE [seen EXCEPT !.pc = "execute", !.idx = q.idx + 1,
                      !.window = limits[q.idx + 1][1],
                      !.max = limits[q.idx + 1][2],
                      !.current_time = t]

\* What the caller does once check_rate_limit has returned r (e: it met a
\* store error): a plain check is over; check_hierarchical_limits goes on to
\* the next WindowSpec, returns (True, None) after the last, or on a denial
\* calls get_rate_limit_info, which reads the clock (t) first; the query
\* handler answers or goes on.
AfterCheck(q, r, e, t) ==
    LET seen == [q EXCEPT !.stamps = Append(q.stamps, q.current_time),
                          !.counts = Append(q.counts, q.current_requests),
                          !.errs = Append(q.errs, e),
                          !.err = q.err \/ e, !.info_err = e]
    IN
    IF q.op = "query"
    THEN QueryAfterCheck(seen, r)
    ELSE IF q.op # "hier"
    THEN [seen EXCEPT !.pc = "done", !.ret = r]
    ELSE IF ~r
    THEN [seen EXCEPT !.pc = "info_prune", !.current_time = t, !.ret = FALSE]
    ELSE IF q.idx = Len(limits)
    THEN [seen EXCEPT !.pc = "done", !.ret = TRUE]
    ELSE [seen EXCEPT !.pc = "execute", !.idx = q.idx + 1,
                      !.key = HierKey(limits[q.idx + 1][1]),
                      !.window = limits[q.idx + 1][1],
                      !.max = limits[q.idx + 1][2],
                      !.current_time = t]

\* the calls let through, once caller p has moved to q
AllowedAfter(q) ==
    IF q.pc \in {"done", "cache"} /\ q.ret
    THEN Counted(allowed,
                 IF q.op = "hier" THEN PolicyKeys(Len(q.stamps))
                 ELSE [i \in 1..1 |-> q.key],
                 q.stamps)
    ELSE allowed

\* check_rate_limit(key, window_seconds, max_requests), lines 38-55: the clock
\* is read and the four commands are queued
CheckStart(p) ==
    /\ CanStart(p)
    /\ \E t \in ClockReads :
        proc' = [proc EXCEPT ![p] =
            [IdleProc EXCEPT !.op = "check", !.pc = "execute", !.key = UserKey,
                             !.window = window_seconds, !.max = max_requests,
                             !.current_time = t,
                             !.after_reset = ExhaustedReset(proc[p]),
                             !.reset_at = ResetBefore(p)]]
    /\ calls' = calls + 1
    /\ UNCHANGED <<now, zsets, ttl, allowed>>
    /\ UNCHANGED <<params, tbvars>>

\* await pipeline.execute(), line 57, and the decision of line 60
Execute(p) ==
    /\ proc[p].pc = "execute"
    /\ \E outcome \in faults, t \in ClockReads :
        LET q == proc[p]
            res == PipelineExecute(zsets[q.key], ttl[q.key], q.current_time,
                                   q.window)
            limited == outcome = "ok" /\ RateLimited(res.current_requests, q.max)
            next == IF limited
                    THEN [q EXCEPT !.pc = "zrem",
                                   !.current_requests = res.current_requests]
                    ELSE AfterCheck(
                        [q EXCEPT !.current_requests =
                            IF outcome = "ok" THEN res.current_requests ELSE 0],
                        IF outcome = "ok" THEN TRUE ELSE FailOpen,
                        outcome # "ok", t)
        IN  /\ zsets' = IF outcome = "refused" THEN zsets
                        ELSE [zsets EXCEPT ![q.key] = res.zset]
            /\ ttl' = IF outcome = "refused" THEN ttl
                      ELSE [ttl EXCEPT ![q.key] = res.ttl]
            /\ proc' = [proc EXCEPT ![p] = next]
            /\ allowed' = AllowedAfter(next)
    /\ UNCHANGED <<now, calls>>
    /\ UNCHANGED <<params, tbvars>>

\* await self.redis.zrem(key, str(current_time)), line 62, and return False;
\* when it raises, the handler of line 75 returns True
Zrem(p) ==
    /\ proc[p].pc = "zrem"
    /\ \E outcome \in faults, t \in ClockReads :
        LET q == proc[p]
            z == ZRem(zsets[q.key], Str(q.current_time))
            next == AfterCheck(q, IF outcome = "ok" THEN FALSE ELSE FailOpen,
                               outcome # "ok", t)
        IN  /\ zsets' = IF outcome = "refused" THEN zsets
                        ELSE [zsets EXCEPT ![q.key] = z]
            /\ ttl' = IF outcome = "refused" THEN ttl
                      ELSE [ttl EXCEPT ![q.key] = KeyTTL(z, ttl[q.key])]
            /\ proc' = [proc EXCEPT ![p] = next]
            /\ allowed' = AllowedAfter(next)
    /\ UNCHANGED <<now, calls>>
    /\ UNCHANGED <<params, tbvars>>

\* int(base_max_requests * self.load_factor), line 193
AdjustedMaxRequests(base_max_requests, factor) ==
    (base_max_requests * factor) \div 100

\* check_adaptive_rate_limit: check_rate_limit with the adjusted quota
AdaptiveStart(p) ==
    /\ CanStart(p)
    /\ \E t \in ClockReads :
        proc' = [proc EXCEPT ![p] =
            [IdleProc EXCEPT !.op = "adaptive", !.pc = "execute",
                             !.key = UserKey, !.window = window_seconds,
                             !.max = AdjustedMaxRequests(max_requests, load_factor),
                             !.current_time = t]]
    /\ calls' = calls + 1
    /\ UNCHANGED <<now, zsets, ttl, allowed>>
    /\ UNCHANGED <<params, tbvars>>

\* check_hierarchical_limits(limits, base_key): the loop of line 225 enters
\* check_rate_limit for the first WindowSpec
HierStart(p) ==
    /\ CanStart(p)
    /\ \E t \in ClockReads :
        proc' = [proc EXCEPT ![p] =
            [IdleProc EXCEPT !.op = "hier", !.pc = "execute", !.idx = 1,
                             !.key = HierKey(limits[1][1]),
                             !.window = limits[1][1], !.max = limits[1][2],
                             !.current_time = t]]
    /\ calls' = calls + 1
    /\ UNCHANGED <<now, zsets, ttl, allowed>>
    /\ UNCHANGED <<params, tbvars>>

\* get_rate_limit_info is over with the dictionary d; under
\* check_hierarchical_limits line 235 sets its "window" and line 237 returns
InfoDone(q, d, e) ==
    [q EXCEPT !.pc = "done",
              !.info = IF q.op = "hier" THEN [d EXCEPT !.window = q.window] ELSE d,
              !.err = q.err \/ e, !.info_err = e]

\* get_rate_limit_info recording the query as check_rate_limit records a request
InfoPrunedAndAdded(z, current_time, window) ==
    ZAdd(ZRemRangeByScore(z, 0, current_time - window), Str(current_time),
         current_time)

\* what lines 96-100 leave of the sorted set
InfoPruned(z, current_time, window) ==
    ZRemRangeByScore(z, 0, current_time - window)

\* await self.redis.zremrangebyscore(key, 0, current_time - window_seconds),
\* line 96; t is the clock the handler of line 119 reads when it raises;
\* removed keeps how many entries the command took away
InfoPrune(p) ==
    /\ proc[p].pc = "info_prune"
    /\ \E outcome \in faults, t \in ClockReads :
        LET q == proc[p]
            z == InfoPruned(zsets[q.key], q.current_time, q.window)
        IN  /\ zsets' = IF outcome = "refused" THEN zsets
                        ELSE [zsets EXCEPT ![q.key] = z]
            /\ ttl' = IF outcome = "refused" THEN ttl
                      ELSE [ttl EXCEPT ![q.key] = KeyTTL(z, ttl[q.key])]
            /\ proc' = [proc EXCEPT ![p] =
                    IF outcome = "ok"
                    THEN [q EXCEPT !.pc = "info_card",
                                   !.removed = ZCard(zsets[q.key]) - ZCard(z)]
                    ELSE InfoDone(q, ErrorInfo(q.max, t, q.window), TRUE)]
    /\ UNCHANGED <<now, calls, allowed>>
    /\ UNCHANGED <<params, tbvars>>

\* current_requests = await self.redis.zcard(key), line 103
InfoCard(p) ==
    /\ proc[p].pc = "info_card"
    /\ \E outcome \in ReadOk, t \in ClockReads :
        LET q == proc[p] IN
        proc' = [proc EXCEPT ![p] =
            IF outcome = "ok" THEN [q EXCEPT !.pc = "info_range",
                                 !.current_requests = ZCard(zsets[q.key])]
            ELSE InfoDone(q, ErrorInfo(q.max, t, q.window), TRUE)]
    /\ UNCHANGED <<now, zsets, ttl, calls, allowed>>
    /\ UNCHANGED <<params, tbvars>>

\* await self.redis.zrange(key, 0, 0, withscores=True), line 106, and the
\* dictionary of lines 107-117
InfoRange(p) ==
    /\ proc[p].pc = "info_range"
    /\ \E outcome \in ReadOk, t \in ClockReads :
        LET q == proc[p] IN
        proc' = [proc EXCEPT ![p] =
            IF outcome = "ok"
            THEN InfoDone(q, LimitInfo(q.max, q.current_requests,
                                       OldestTime(zsets[q.key], q.current_time),
                                       q.window), FALSE)
            ELSE InfoDone(q, ErrorInfo(q.max, t, q.window), TRUE)]
    /\ UNCHANGED <<now, zsets, ttl, calls, allowed>>
    /\ UNCHANGED <<params, tbvars>>

\* get_rate_limit_info(key, window_seconds, max_requests) called on its own:
\* line 93 reads the clock.  prev keeps what the caller's last call reported
\* when that was a get_rate_limit_info too.
InfoStart(p) ==
    /\ CanStart(p)
    /\ \E t \in ClockReads :
        proc' = [proc EXCEPT ![p] =
            [IdleProc EXCEPT !.op = "info", !.pc = "info_prune", !.key = UserKey,
                             !.window = window_seconds, !.max = max_requests,
                             !.current_time = t,
                             !.prev = IF proc[p].op = "info" /\ ~proc[p].info_err
                                      THEN proc[p].info ELSE NoInfo,
                             !.prev_time = proc[p].current_time]]
    /\ calls' = calls + 1
    /\ UNCHANGED <<now, zsets, ttl, allowed>>
    /\ UNCHANGED <<params, tbvars>>

\* DEL key leaving the key as it was
DelNothing(z) == z

\* DEL key: the sorted set and its TTL are gone
Del(z) == {}

\* reset_rate_limit returning True from its handler
ResetFailedTrue == TRUE

\* what the handler of lines 142-144 returns
ResetFailed == FALSE

\* reset_rate_limit(key): await self.redis.delete(key), line 139, and the
\* return of line 141 or of line 144; current_requests keeps how many entries
\* the key held, and the record of the calls let through starts anew with the
\* key
Reset(p) ==
    /\ CanStart(p)
    /\ \E outcome \in faults :
        LET z == Del(zsets[UserKey]) IN
        /\ zsets' = IF outcome = "refused" THEN zsets
                    ELSE [zsets EXCEPT ![UserKey] = z]
        /\ ttl' = IF outcome = "refused" THEN ttl
                  ELSE [ttl EXCEPT ![UserKey] = KeyTTL(z, ttl[UserKey])]
        /\ proc' = [r \in Procs |->
                IF r = p
                THEN [IdleProc EXCEPT !.op = "reset", !.pc = "done",
                                      !.key = UserKey,
                                      !.current_requests = ZCard(zsets[UserKey]),
                                      !.ret = IF outcome = "ok" THEN TRUE
                                              ELSE ResetFailed,
                                      !.err = outcome # "ok"]
                ELSE IF outcome = "ok" THEN ResetMark(proc[r]) ELSE proc[r]]
        /\ allowed' = IF outcome = "refused" THEN allowed
                      ELSE [allowed EXCEPT ![UserKey] = [t \in Time |-> 0]]
    /\ calls' = calls + 1
    /\ UNCHANGED now
    /\ UNCHANGED <<params, tbvars>>

\* the CPU and memory percentages update_load_factor is called with
Percents == {50, 51, 70, 90, 95}

\* the thresholds compared with >= for >
LoadFactorForInclusive(cpu_usage, memory_usage) ==
    LET system_load == Max2(cpu_usage, memory_usage) IN
    IF system_load >= 90 THEN 50
    ELSE IF system_load >= 70 THEN 75
    ELSE IF system_load >= 50 THEN 90
    ELSE 100

\* lines 165-174, in hundredths: system_load = max(cpu, mem) / 100.0 against
\* the thresholds 0.9, 0.7 and 0.5
LoadFactorFor(cpu_usage, memory_usage) ==
    LET system_load == Max2(cpu_usage, memory_usage) IN
    IF system_load > 90 THEN 50
    ELSE IF system_load > 70 THEN 75
    ELSE IF system_load > 50 THEN 90
    ELSE 100

\* update_load_factor(cpu_usage, memory_usage): no await, one step
UpdateLoadFactor(p) ==
    /\ CanStart(p)
    /\ \E c \in Percents, m \in Percents :
        /\ load_factor' = LoadFactorFor(c, m)
        /\ proc' = [proc EXCEPT ![p] =
                [IdleProc EXCEPT !.op = "update", !.pc = "done",
                                 !.cpu_usage = c, !.memory_usage = m]]
    /\ calls' = calls + 1
    /\ UNCHANGED <<now, zsets, ttl, allowed, tbvars>>
    /\ UNCHANGED <<active, window_seconds, max_requests, limits, lags, faults,
                   budget, capacity, refill_rate>>

\* ----------------------------------------------- app.py, the query handler
\* what a call of a downstream service comes to: HTTP 200, another status, or
\* an exception
HttpResults == {"ok", "bad", "raise"}

\* query(request, ...), app.py lines 256-262: the handler enters
\* check_rate_limit(f"user:{client_ip}", 60, 100), here with the window and the
\* quota of the run
QueryStart(p) ==
    /\ CanStart(p)
    /\ \E t \in ClockReads, empty \in BOOLEAN :
        proc' = [proc EXCEPT ![p] =
            [IdleProc EXCEPT !.op = "query", !.pc = "execute", !.key = UserKey,
                             !.window = window_seconds, !.max = max_requests,
                             !.current_time = t, !.query_empty = empty]]
    /\ calls' = calls + 1
    /\ UNCHANGED <<now, zsets, ttl, allowed>>
    /\ UNCHANGED <<params, tbvars>>

\* cached_result = await redis_client.get(cache_key), app.py lines 270-276; an
\* exception ends in the handler of line 360 with HTTP 500
QueryCache(p) ==
    /\ proc[p].pc = "cache"
    /\ \E outcome \in ReadOk, hit \in BOOLEAN :
        LET q == [proc[p] EXCEPT !.reached = @ \cup {"cache"}] IN
        proc' = [proc EXCEPT ![p] =
            IF outcome # "ok" THEN [q EXCEPT !.pc = "done", !.status = 500]
            ELSE IF hit THEN [q EXCEPT !.pc = "done", !.status = 200]
            ELSE [q EXCEPT !.pc = "search"]]
    /\ UNCHANGED <<now, zsets, ttl, calls, allowed>>
    /\ UNCHANGED <<params, tbvars>>

\* await http_client.post(f"{vector_service_url}/search", ...), app.py lines
\* 282-298
QuerySearch(p) ==
    /\ proc[p].pc = "search"
    /\ \E r \in HttpResults :
        LET q == [proc[p] EXCEPT !.reached = @ \cup {"search"}] IN
        proc' = [proc EXCEPT ![p] =
            CASE r = "ok" -> [q EXCEPT !.pc = "rag"]
              [] r = "bad" -> [q EXCEPT !.pc = "done", !.status = 503]
              [] r = "raise" -> [q EXCEPT !.pc = "done", !.status = 500]]
    /\ UNCHANGED <<now, zsets, ttl, calls, allowed>>
    /\ UNCHANGED <<params, tbvars>>

\* await http_client.post(f"{rag_service_url}/generate", ...), app.py lines
\* 304-319
QueryRag(p) ==
    /\ proc[p].pc = "rag"
    /\ \E r \in HttpResults :
        LET q == [proc[p] EXCEPT !.reached = @ \cup {"rag"}] IN
        proc' = [proc EXCEPT ![p] =
            CASE r = "ok" -> [q EXCEPT !.pc = "setex"]
              [] r = "bad" -> [q EXCEPT !.pc = "done", !.status = 503]
              [] r = "raise" -> [q EXCEPT !.pc = "done", !.status = 500]]
    /\ UNCHANGED <<now, zsets, ttl, calls, allowed>>
    /\ UNCHANGED <<params, tbvars>>

\* await redis_client.setex(cache_key, 300, ...) and the return, app.py lines
\* 342-356
QuerySetex(p) ==
    /\ proc[p].pc = "setex"
    /\ \E outcome \in faults :
        proc' = [proc EXCEPT ![p] =
            [proc[p] EXCEPT !.pc = "done",
                            !.status = IF outcome = "ok" THEN 200 ELSE 500]]
    /\ UNCHANGED <<now, zsets, ttl, calls, allowed>>
    /\ UNCHANGED <<params, tbvars>>

\* ------------------------------------------------ TokenBucketRateLimiter
\* the seconds line 297 adds to capacity / refill_rate
TtlMargin == 60

\* the key of a bucket that was never written, or has expired
NoBucket == [exists |-> FALSE, tokens |-> 0, last_refill |-> 0, bad |-> "none"]

\* float(...) of lines 276-277 raises ValueError on a field that is no number
Parses(b) == ~b.exists \/ b.bad = "none"

\* a bucket never written read as empty
CurrentTokensEmpty(b, cap) == IF b.exists THEN b.tokens ELSE 0

\* float(bucket_data[0] or capacity)
CurrentTokens(b, cap) == IF b.exists THEN b.tokens ELSE cap

\* float(bucket_data[1] or current_time)
LastRefill(b, current_time) == IF b.exists THEN b.last_refill ELSE current_time

Min2(a, b) == IF a <= b THEN a ELSE b

\* the refill without the cap
NewTokensUncapped(cap, current_tokens, last_refill, current_time, rate) ==
    current_tokens + (current_time - last_refill) * rate

\* lines 280-284: min(capacity, current_tokens + time_elapsed * refill_rate)
NewTokens(cap, current_tokens, last_refill, current_time, rate) ==
    Min2(cap, current_tokens + (current_time - last_refill) * rate)

\* the comparison with > for >=
GrantedStrict(new_tokens, tokens_requested) == new_tokens > tokens_requested

\* if new_tokens >= tokens_requested, line 286
Granted(new_tokens, tokens_requested) == new_tokens >= tokens_requested

\* HMSET key tokens ... last_refill ...
HMSet(tokens, last_refill) ==
    [exists |-> TRUE, tokens |-> tokens, last_refill |-> last_refill,
     bad |-> "none"]

\* the time to live without its margin
BucketTTLNoMargin(cap, rate) == cap \div rate

\* int(capacity / refill_rate) + 60
BucketTTL(cap, rate) == (cap \div rate) + TtlMargin

\* the handler failing closed
TbFailClosed == FALSE

\* what the handler of lines 316-319 returns
TbFailOpen == TRUE

IdleTb ==
    [pc |-> "idle", current_time |-> 0, tokens_requested |-> 0,
     current_tokens |-> 0, last_refill |-> 0, new_tokens |-> 0,
     ret |-> FALSE, why |-> "none", granted |-> [t \in Time |-> 0]]

\* the account of granted tokens is kept where it has a meaning: one caller
\* whose clock is the store's, over a store that does not fail
KeepsAccount == Cardinality(active) = 1 /\ lags = {0} /\ faults = {"ok"}

\* the call is over: it returns r; why names what raised, if anything did;
\* granted keeps the tokens the caller was granted, by the time of the call
TbDone(q, r, why) ==
    [q EXCEPT !.pc = "done", !.ret = r, !.why = why,
              !.granted =
                    IF r /\ KeepsAccount /\ q.current_time \in Time
                    THEN [@ EXCEPT ![q.current_time] = @ + q.tokens_requested]
                    ELSE @]

\* check_token_bucket(key, capacity, refill_rate, tokens_requested), line 269
TbStart(p) ==
    /\ p \in active
    /\ tb[p].pc \in {"idle", "done"}
    /\ calls < budget
    /\ \E t \in ClockReads, n \in 1..Max2(1, capacity + 1) :
        tb' = [tb EXCEPT ![p] =
            [IdleTb EXCEPT !.pc = "hmget", !.current_time = t,
                           !.tokens_requested = n,
                           !.granted = tb[p].granted]]
    /\ calls' = calls + 1
    /\ UNCHANGED <<now, bucket, bucket_ttl, swvars, params>>

\* await self.redis.hmget(key, "tokens", "last_refill") and lines 276-284
TbHmget(p) ==
    /\ tb[p].pc = "hmget"
    /\ \E outcome \in ReadOk :
        LET q == tb[p]
            tokens == CurrentTokens(bucket, capacity)
            last == LastRefill(bucket, q.current_time)
        IN  tb' = [tb EXCEPT ![p] =
                IF outcome # "ok" THEN TbDone(q, TbFailOpen, "hmget")
                ELSE IF ~Parses(bucket) THEN TbDone(q, TbFailOpen, "parse")
                ELSE [q EXCEPT !.pc = "hmset", !.current_tokens = tokens,
                               !.last_refill = last,
                               !.new_tokens = NewTokens(capacity, tokens, last,
                                                        q.current_time,
                                                        refill_rate)]]
    /\ UNCHANGED <<now, bucket, bucket_ttl, calls, swvars, params>>

\* await self.redis.hmset(...), line 291 or line 302; a denied call returns
\* False, a granted one goes on to line 297, where capacity / refill_rate
\* raises ZeroDivisionError when refill_rate is 0
TbHmset(p) ==
    /\ tb[p].pc = "hmset"
    /\ \E outcome \in faults :
        LET q == tb[p]
            granted == Granted(q.new_tokens, q.tokens_requested)
            written == HMSet(IF granted THEN q.new_tokens - q.tokens_requested
                             ELSE q.new_tokens,
                             q.current_time)
        IN  /\ bucket' = IF outcome = "refused" THEN bucket ELSE written
            /\ tb' = [tb EXCEPT ![p] =
                    IF outcome # "ok" THEN TbDone(q, TbFailOpen, "hmset")
                    ELSE IF ~granted THEN TbDone(q, FALSE, "none")
                    ELSE IF refill_rate = 0
                    THEN TbDone(q, TbFailOpen, "zerodivision")
                    ELSE [q EXCEPT !.pc = "expire"]]
    /\ UNCHANGED <<now, bucket_ttl, calls, swvars, params>>

\* await self.redis.expire(key, int(capacity / refill_rate) + 60), line 297
TbExpire(p) ==
    /\ tb[p].pc = "expire"
    /\ \E outcome \in faults :
        /\ bucket_ttl' = IF outcome = "refused" \/ ~bucket.exists THEN bucket_ttl
                         ELSE now + BucketTTL(capacity, refill_rate)
        /\ tb' = [tb EXCEPT ![p] =
                IF outcome = "ok" THEN TbDone(tb[p], TRUE, "none")
                ELSE TbDone(tb[p], TbFailOpen, "expire")]
    /\ UNCHANGED <<now, bucket, calls, swvars, params>>

\* another writer leaves a field of the hash that is no number
Corrupt ==
    /\ "refused" \in faults
    /\ bucket.exists /\ bucket.bad = "none"
    /\ \E f \in {"tokens", "last_refill"} : bucket' = [bucket EXCEPT !.bad = f]
    /\ UNCHANGED <<now, bucket_ttl, tb, calls, swvars, params>>

\* the store's clock advances; a key whose TTL has run out is gone
Tick ==
    /\ now < MaxTime
    /\ now' = now + 1
    /\ zsets' = [k \in Keys |->
                    IF ttl[k] # NoTTL /\ ttl[k] <= now + 1 THEN {} ELSE zsets[k]]
    /\ ttl' = [k \in Keys |->
                    IF ttl[k] # NoTTL /\ ttl[k] <= now + 1 THEN NoTTL ELSE ttl[k]]
    /\ bucket' = IF bucket_ttl # NoTTL /\ bucket_ttl <= now + 1
                  THEN NoBucket ELSE bucket
    /\ bucket_ttl' = IF bucket_ttl # NoTTL /\ bucket_ttl <= now + 1
                      THEN NoTTL ELSE bucket_ttl
    /\ UNCHANGED <<proc, tb, calls, allowed>>
    /\ UNCHANGED params

\* ------------------------------------------------------- specifications
LoadFactors == {50, 75, 90, 100}

InitStore ==
    /\ now = 0
    /\ zsets = [k \in Keys |-> {}]
    /\ ttl = [k \in Keys |-> NoTTL]
    /\ proc = [p \in Procs |-> IdleProc]
    /\ calls = 0
    /\ allowed = [k \in Keys |-> [t \in Time |-> 0]]
    /\ bucket = NoBucket
    /\ bucket_ttl = NoTTL
    /\ tb = [p \in Procs |-> IdleTb]

\* no token bucket is checked
NoBucketParams == capacity = 1 /\ refill_rate = 1

\* concurrent check_rate_limit calls on one key
Init ==
    /\ InitStore
    /\ NoBucketParams
    /\ active = Procs
    /\ window_seconds \in Windows
    /\ max_requests \in Quotas
    /\ limits = <<>>
    /\ load_factor = 100
    /\ lags = {0}
    /\ faults = {"ok"}
    /\ budget = MaxCalls

\* one caller's check_rate_limit calls on one key, one after the other
InitSeq ==
    /\ InitStore
    /\ NoBucketParams
    /\ active = {"p1"}
    /\ window_seconds \in Windows
    /\ max_requests \in Quotas
    /\ limits = <<>>
    /\ load_factor = 100
    /\ lags = {0}
    /\ faults = {"ok"}
    /\ budget = MaxCalls

Next ==
    \/ \E p \in Procs : CheckStart(p)
    \/ \E p \in Procs : Execute(p)
    \/ \E p \in Procs : Zrem(p)
    \/ Tick

Spec == Init /\ [][Next]_vars

SpecSeq == InitSeq /\ [][Next]_vars

\* the same calls with a clock that does not stop: the store's expiry needs
\* no call of the limiter, only time
SpecLive == InitSeq /\ [][Next]_vars /\ WF_vars(Tick)

\* one caller's check_hierarchical_limits calls under a policy
InitH ==
    /\ InitStore
    /\ NoBucketParams
    /\ active = {"p1"}
    /\ window_seconds = 1
    /\ max_requests = 1
    /\ limits \in Policies
    /\ load_factor = 100
    /\ lags = {0}
    /\ faults = {"ok"}
    /\ budget = MaxCalls

NextH ==
    \/ \E p \in Procs : HierStart(p)
    \/ \E p \in Procs : Execute(p)
    \/ \E p \in Procs : Zrem(p)
    \/ \E p \in Procs : InfoPrune(p)
    \/ \E p \in Procs : InfoCard(p)
    \/ \E p \in Procs : InfoRange(p)
    \/ Tick

SpecH == InitH /\ [][NextH]_vars

\* a policy that names one window twice: both WindowSpecs share the key
\* f"{base_key}:{window_seconds}"
SharedKeyPolicies == {<< <<2, 1>>, <<2, 2>> >>}

\* the same calls, the policy drawn from both families
InitHS ==
    /\ InitStore
    /\ NoBucketParams
    /\ active = {"p1"}
    /\ window_seconds = 1
    /\ max_requests = 1
    /\ limits \in Policies \cup SharedKeyPolicies
    /\ load_factor = 100
    /\ lags = {0}
    /\ faults = {"ok"}
    /\ budget = MaxCalls

SpecHS == InitHS /\ [][NextH]_vars

\* one caller's calls of the three check variants over a store that may fail
\* at every round trip, with a load factor some update_load_factor call left
InitF ==
    /\ InitStore
    /\ NoBucketParams
    /\ active = {"p1"}
    /\ window_seconds = 2
    /\ max_requests = 1
    /\ limits \in Policies
    /\ load_factor \in {50, 100}
    /\ lags = {0}
    /\ faults = Outcomes
    /\ budget = MaxFaultCalls

NextF ==
    \/ \E p \in Procs : CheckStart(p)
    \/ \E p \in Procs : AdaptiveStart(p)
    \/ NextH

SpecF == InitF /\ [][NextF]_vars

\* one caller's check_token_bucket calls on one key, its clock lagging the
\* store's by up to MaxSkew
InitTB ==
    /\ InitStore
    /\ active = {"p1"}
    /\ window_seconds = 1
    /\ max_requests = 1
    /\ limits = <<>>
    /\ load_factor = 100
    /\ lags = 0..MaxSkew
    /\ faults = {"ok"}
    /\ budget = MaxBucketCalls
    /\ capacity \in 1..MaxCapacity
    /\ refill_rate \in 0..MaxRate

NextTB ==
    \/ \E p \in Procs : TbStart(p)
    \/ \E p \in Procs : TbHmget(p)
    \/ \E p \in Procs : TbHmset(p)
    \/ \E p \in Procs : TbExpire(p)
    \/ Tick

SpecTB == InitTB /\ [][NextTB]_vars

\* two callers' check_token_bucket calls on one key, their store steps
\* interleaved, clocks in step with the store
InitTBC ==
    /\ InitStore
    /\ active = Procs
    /\ window_seconds = 1
    /\ max_requests = 1
    /\ limits = <<>>
    /\ load_factor = 100
    /\ lags = {0}
    /\ faults = {"ok"}
    /\ budget = MaxRaceCalls
    /\ capacity = MaxCapacity
    /\ refill_rate \in 1..MaxRate

SpecTBC == InitTBC /\ [][NextTB]_vars

\* one caller's check_token_bucket calls, one after the other, its clock in
\* step with the store's
InitTBS ==
    /\ InitStore
    /\ active = {"p1"}
    /\ window_seconds = 1
    /\ max_requests = 1
    /\ limits = <<>>
    /\ load_factor = 100
    /\ lags = {0}
    /\ faults = {"ok"}
    /\ budget = MaxBucketCalls
    /\ capacity \in 1..MaxCapacity
    /\ refill_rate \in 0..MaxRate

SpecTBS == InitTBS /\ [][NextTB]_vars

\* the same over a store that may fail at every round trip and whose hash
\* another writer may leave with a field that is no number
InitTBF ==
    /\ InitStore
    /\ active = {"p1"}
    /\ window_seconds = 1
    /\ max_requests = 1
    /\ limits = <<>>
    /\ load_factor = 100
    /\ lags = 0..MaxSkew
    /\ faults = Outcomes
    /\ budget = MaxFaultCalls
    /\ capacity \in 1..MaxCapacity
    /\ refill_rate \in 0..MaxRate

NextTBF ==
    \/ Corrupt
    \/ NextTB

SpecTBF == InitTBF /\ [][NextTBF]_vars

\* the base quotas check_adaptive_rate_limit is called with
BaseQuotas == {1, 2, 4}

\* one caller's update_load_factor and check_adaptive_rate_limit calls
InitA ==
    /\ InitStore
    /\ NoBucketParams
    /\ active = {"p1"}
    /\ window_seconds \in Windows
    /\ max_requests \in BaseQuotas
    /\ limits = <<>>
    /\ load_factor = 100
    /\ lags = {0}
    /\ faults = {"ok"}
    /\ budget = MaxCalls

NextA ==
    \/ \E p \in Procs : UpdateLoadFactor(p)
    \/ \E p \in Procs : AdaptiveStart(p)
    \/ \E p \in Procs : Execute(p)
    \/ \E p \in Procs : Zrem(p)
    \/ Tick

SpecA == InitA /\ [][NextA]_vars

\* the quotas get_rate_limit_info is asked about
InfoQuotas == 1..(MaxRequests + 1)

\* one caller's check_rate_limit, get_rate_limit_info and reset_rate_limit
\* calls on one key
InitI ==
    /\ InitStore
    /\ NoBucketParams
    /\ active = {"p1"}
    /\ window_seconds \in Windows
    /\ max_requests \in InfoQuotas
    /\ limits = <<>>
    /\ load_factor = 100
    /\ lags = {0}
    /\ faults = {"ok"}
    /\ budget = MaxCalls

NextI ==
    \/ \E p \in Procs : CheckStart(p)
    \/ \E p \in Procs : Execute(p)
    \/ \E p \in Procs : Zrem(p)
    \/ \E p \in Procs : InfoStart(p)
    \/ \E p \in Procs : InfoPrune(p)
    \/ \E p \in Procs : InfoCard(p)
    \/ \E p \in Procs : InfoRange(p)
    \/ \E p \in Procs : Reset(p)
    \/ Tick

SpecI == InitI /\ [][NextI]_vars

\* the same over a store that may fail at every round trip
InitIF ==
    /\ InitStore
    /\ NoBucketParams
    /\ active = {"p1"}
    /\ window_seconds \in Windows
    /\ max_requests \in Quotas
    /\ limits = <<>>
    /\ load_factor = 100
    /\ lags = {0}
    /\ faults = Outcomes
    /\ budget = MaxFaultCalls

SpecIF == InitIF /\ [][NextI]_vars

\* two callers' check_rate_limit and reset_rate_limit calls on one key, their
\* store steps interleaved
InitR ==
    /\ InitStore
    /\ NoBucketParams
    /\ active = Procs
    /\ window_seconds \in Windows
    /\ max_requests \in Quotas
    /\ limits = <<>>
    /\ load_factor = 100
    /\ lags = {0}
    /\ faults = {"ok"}
    /\ budget = MaxCalls

NextR ==
    \/ \E p \in Procs : CheckStart(p)
    \/ \E p \in Procs : Execute(p)
    \/ \E p \in Procs : Zrem(p)
    \/ \E p \in Procs : Reset(p)
    \/ Tick

SpecR == InitR /\ [][NextR]_vars

\* two callers' check_rate_limit calls on one key over a store that may fail
\* at every round trip
InitC ==
    /\ InitStore
    /\ NoBucketParams
    /\ active = Procs
    /\ window_seconds = MaxWindow
    /\ max_requests = 1
    /\ limits = <<>>
    /\ load_factor = 100
    /\ lags = {0}
    /\ faults = Outcomes
    /\ budget = MaxCalls

SpecC == InitC /\ [][Next]_vars

\* the clocks of the callers against the store's: in step with it, behind it,
\* or ahead of it (a negative lag)
ClockFamilies == {{0}, 0..MaxSkew, {0 - d : d \in 0..MaxSkew}}

\* one caller's check_rate_limit, get_rate_limit_info and reset_rate_limit
\* calls, its clock in step with the store's, behind it or ahead of it
InitK ==
    /\ InitStore
    /\ NoBucketParams
    /\ active = {"p1"}
    /\ window_seconds \in Windows
    /\ max_requests = MaxRequests
    /\ limits = <<>>
    /\ load_factor = 100
    /\ lags \in ClockFamilies
    /\ faults = {"ok"}
    /\ budget = MaxCalls

SpecK == InitK /\ [][NextI]_vars

\* the windows and capacities of the calls with invalid parameters, next to a
\* valid one of each
BadWindows == {-1, 0, 1}
BadCapacities == {-1, 1}

\* one caller's check_rate_limit and check_token_bucket calls, with parameters
\* that are no window and no capacity among them
InitV ==
    /\ InitStore
    /\ active = {"p1"}
    /\ window_seconds \in BadWindows
    /\ max_requests = 1
    /\ limits = <<>>
    /\ load_factor = 100
    /\ lags = {0}
    /\ faults = {"ok"}
    /\ budget = MaxBucketCalls
    /\ capacity \in BadCapacities
    /\ refill_rate = 1

NextV ==
    \/ \E p \in Procs : CheckStart(p)
    \/ \E p \in Procs : Execute(p)
    \/ \E p \in Procs : Zrem(p)
    \/ NextTB

SpecV == InitV /\ [][NextV]_vars

\* one client's requests to the query handler, over a store and services
\* that may fail
InitQ ==
    /\ InitStore
    /\ NoBucketParams
    /\ active = {"p1"}
    /\ window_seconds \in Windows
    /\ max_requests \in Quotas
    /\ limits = <<>>
    /\ load_factor = 100
    /\ lags = {0}
    /\ faults = Outcomes
    /\ budget = MaxFaultCalls

NextQ ==
    \/ \E p \in Procs : QueryStart(p)
    \/ \E p \in Procs : Execute(p)
    \/ \E p \in Procs : Zrem(p)
    \/ \E p \in Procs : QueryCache(p)
    \/ \E p \in Procs : QuerySearch(p)
    \/ \E p \in Procs : QueryRag(p)
    \/ \E p \in Procs : QuerySetex(p)
    \/ Tick

SpecQ == InitQ /\ [][NextQ]_vars

\* no call is made until the time to live of line 297 runs out: the store's
\* clock reaches the expiry and the key is gone; under "expired" the record
\* keeps the fields the key held
Sleep ==
    /\ \A p \in Procs : tb[p].pc \in {"idle", "done"}
    /\ bucket_ttl # NoTTL /\ now < bucket_ttl
    /\ now' = bucket_ttl
    /\ bucket' = [bucket EXCEPT !.exists = FALSE, !.bad = "expired"]
    /\ bucket_ttl' = NoTTL
    /\ UNCHANGED <<tb, calls, swvars, params>>

\* a caller whose clock is behind the store's by more than the margin of
\* line 297
StaleClock == {0, TtlMargin + 1}

\* one caller's check_token_bucket calls on one key that may be left alone
\* until it expires; the caller's clock in step with the store's, behind it,
\* ahead of it, or stepping back by more than the margin
InitTBX ==
    /\ InitStore
    /\ active = {"p1"}
    /\ window_seconds = 1
    /\ max_requests = 1
    /\ limits = <<>>
    /\ load_factor = 100
    /\ lags \in ClockFamilies \cup {StaleClock}
    /\ faults = {"ok"}
    /\ budget = MaxBucketCalls
    /\ capacity \in 1..MaxCapacity
    /\ refill_rate \in 0..MaxRate

NextTBX ==
    \/ Sleep
    \/ NextTB

SpecTBX == InitTBX /\ [][NextTBX]_vars

\* ------------------------------------------------------------- the claims
RECURSIVE SumOver(_, _)
SumOver(f, S) ==
    IF S = {} THEN 0
    ELSE LET x == CHOOSE y \in S : TRUE IN f[x] + SumOver(f, S \ {x})

\* the calls let through on key k with a timestamp in the window that ends at ts
WindowCount(a, k, ts, w) == SumOver(a[k], {t \in Time : ts - w < t /\ t <= ts})

\* caller p's call returns in this step
Returns(p) == proc[p].pc \notin {"idle", "done"} /\ proc'[p].pc = "done"

\* C1: once max_requests check_rate_limit calls on a key have returned True
\* with timestamps inside one window, the next call inside that window (equal
\* timestamps included) returns False.  Stated for the calls that reach the
\* store at the instant they read the clock.
C1_NextCallInWindowDenied ==
    [][\A p \in Procs :
        (/\ Returns(p)
         /\ proc[p].op = "check"
         /\ proc[p].current_time = now
         /\ WindowCount(allowed, proc[p].key, proc[p].current_time,
                        proc[p].window) >= proc[p].max)
        => ~proc'[p].ret]_vars

\* C2: a check_rate_limit call whose timestamp lies more than window_seconds
\* after every entry recorded for the key returns True (max_requests >= 1, no
\* store error), whatever was let through before.
C2_AllowedAfterWindowElapsed ==
    [][\A p \in Procs :
        (/\ proc[p].pc = "execute"
         /\ proc[p].op = "check"
         /\ proc[p].max >= 1
         /\ \A e \in zsets[proc[p].key] :
                proc[p].current_time > e.score + proc[p].window
         /\ proc'[p] # proc[p])
        => (proc'[p].pc = "done" /\ proc'[p].ret /\ ~proc'[p].err)]_vars

\* a call is let through after the quota was used up by calls the last of which
\* lies more than a window back
C2_Witness ==
    \E p \in Procs, s \in Time :
        /\ proc[p].pc = "done" /\ proc[p].op = "check" /\ proc[p].ret
        /\ allowed[proc[p].key][s] >= 1
        /\ WindowCount(allowed, proc[p].key, s, proc[p].window) >= proc[p].max
        /\ proc[p].current_time > s + proc[p].window

\* C3: under every interleaving of concurrent check_rate_limit calls on one
\* key (the batch one step, the compensating removal a later one), the calls
\* that returned True with timestamps inside one span of window_seconds never
\* number more than max_requests.  Stated at each return of a call that
\* reached the store at the instant it read the clock.
C3_AtMostMaxPerSpan ==
    [][\A p \in Procs :
        (/\ Returns(p)
         /\ proc[p].op = "check"
         /\ proc[p].current_time = now)
        => \A s \in Time :
            SumOver(allowed'[UserKey],
                    {t \in Time : s <= t /\ t < s + window_seconds})
                <= max_requests]_vars

\* C4, as claimed: a store failure at any round trip of check_rate_limit,
\* check_adaptive_rate_limit or check_hierarchical_limits makes the call return
\* True, and (True, None) for check_hierarchical_limits.
C4_AnyFailureAllows ==
    \A p \in Procs :
        (proc[p].pc = "done" /\ proc[p].err)
        => (proc[p].ret /\ proc[p].info = NoInfo)

\* C4, amended: a store failure inside check_rate_limit or
\* check_adaptive_rate_limit makes the call return True; inside
\* check_hierarchical_limits a WindowSpec whose check met a store failure counts
\* as allowed (it is never the one that denies, and when every check fails the
\* call returns (True, None)), and a failure inside the get_rate_limit_info that
\* follows a denial leaves the denial and reports the full quota.
C4_FailOpen ==
    \A p \in Procs :
        proc[p].pc = "done" =>
            /\ (proc[p].op \in {"check", "adaptive"} /\ proc[p].err) => proc[p].ret
            /\ proc[p].op = "hier" =>
                /\ \A i \in DOMAIN proc[p].errs :
                    proc[p].errs[i] => (i < Len(proc[p].errs) \/ proc[p].ret)
                /\ (\A i \in DOMAIN limits :
                        i \in DOMAIN proc[p].errs /\ proc[p].errs[i])
                    => (proc[p].ret /\ proc[p].info = NoInfo)
                /\ (~proc[p].ret /\ proc[p].info_err)
                    => /\ proc[p].info.remaining = proc[p].info.limit
                       /\ proc[p].info.limit = proc[p].max

\* a hierarchical call whose first check failed open, whose second WindowSpec
\* denied it, and whose get_rate_limit_info failed
C4_Witness ==
    \E p \in Procs :
        /\ proc[p].pc = "done" /\ proc[p].op = "hier"
        /\ proc[p].errs = <<TRUE, FALSE>>
        /\ ~proc[p].ret /\ proc[p].info_err

\* the tokens a call that reads the clock at t finds in the bucket b
Available(b, t) ==
    LET tokens == IF b.exists THEN b.tokens ELSE capacity
        lastRefill == IF b.exists THEN b.last_refill ELSE t
        refilled == tokens + (t - lastRefill) * refill_rate
    IN  IF refilled < capacity THEN refilled ELSE capacity

\* caller p's check_token_bucket call returns in this step, no store error met
TbReturns(p) ==
    /\ tb[p].pc \in {"hmset", "expire"}
    /\ tb'[p].pc = "done"
    /\ tb'[p].why \in {"none", "zerodivision"}

\* C5: with no store error check_token_bucket returns True exactly when
\* available >= tokens_requested, available being min(capacity, tokens +
\* (now - lastRefill) * refillRate) with a bucket never written read as
\* (capacity, now).
C5_GrantedIffAvailable ==
    [][\A p \in Procs :
        /\ (tb[p].pc = "hmget" /\ tb'[p].pc = "hmset")
            => tb'[p].new_tokens = Available(bucket, tb[p].current_time)
        /\ TbReturns(p)
            => (tb'[p].ret <=> tb[p].new_tokens >= tb[p].tokens_requested)]_vars

\* a request for no more than the capacity is denied: the bucket was drawn on
C5_Witness ==
    \E p \in Procs :
        /\ tb[p].pc = "done" /\ tb[p].why = "none" /\ ~tb[p].ret
        /\ tb[p].tokens_requested <= capacity
        /\ tb[p].new_tokens >= 0

\* C6: after any sequence of check_token_bucket calls with a fixed capacity and
\* refill rate, also ones that read a clock behind the stored last_refill, the
\* stored tokens lie between 0 and capacity.
C6_TokensWithinBounds ==
    bucket.exists => (0 <= bucket.tokens /\ bucket.tokens <= capacity)

\* C7: a request for capacity tokens on a full bucket (one that holds capacity
\* tokens for the call's clock read) is granted and leaves 0 tokens stored; a
\* second one with no time elapsed is denied; one made capacity / refill_rate
\* seconds or more after the bucket was emptied is granted.
C7_FullRequestEmptiesBucket ==
    [][\A p \in Procs :
        (TbReturns(p) /\ tb[p].tokens_requested = capacity) =>
            LET elapsed == tb[p].current_time - tb[p].last_refill IN
            /\ tb[p].current_tokens + elapsed * refill_rate >= capacity
                => (tb'[p].ret /\ bucket'.exists /\ bucket'.tokens = 0)
            /\ (tb[p].current_tokens = 0 /\ elapsed = 0)
                => (~tb'[p].ret /\ bucket'.exists /\ bucket'.tokens = 0)
            /\ (tb[p].current_tokens = 0 /\ refill_rate > 0
                    /\ elapsed * refill_rate >= capacity)
                => tb'[p].ret]_vars

\* a request for capacity tokens is granted on a bucket that was emptied and
\* has refilled
C7_Witness ==
    \E p \in Procs :
        /\ tb[p].pc = "done" /\ tb[p].why = "none" /\ tb[p].ret
        /\ tb[p].tokens_requested = capacity
        /\ tb[p].current_tokens = 0
        /\ (tb[p].current_time - tb[p].last_refill) * refill_rate >= capacity
        /\ bucket.exists /\ bucket.tokens = 0

C9_FirstViolationDecides ==
    \A p \in Procs :
        (proc[p].pc = "done" /\ proc[p].op = "hier") =>
            LET n == Len(proc[p].counts) IN
            /\ n \in DOMAIN limits
            /\ proc[p].key = HierKey(limits[n][1])
            /\ \A i \in 1..(n - 1) : proc[p].counts[i] < limits[i][2]
            /\ proc[p].ret <=> (n = Len(limits) /\ proc[p].counts[n] < limits[n][2])
            /\ proc[p].ret => proc[p].info = NoInfo
            /\ ~proc[p].ret =>
                /\ proc[p].counts[n] >= limits[n][2]
                /\ proc[p].info.window = limits[n][1]
                /\ proc[p].info.limit = limits[n][2]

\* a call that passed the first WindowSpec and was denied by the second
C9_Witness ==
    \E p \in Procs :
        /\ proc[p].pc = "done" /\ proc[p].op = "hier"
        /\ Len(proc[p].counts) = 2 /\ ~proc[p].ret
        /\ proc[p].info.window = limits[2][1]

\* C10: under a policy whose first WindowSpec has the shorter window and the
\* smaller quota, once quota-many calls were let through with timestamps inside
\* the short window, the next call inside it is denied with info["window"] the
\* short window.  Stated for the calls that run from their first clock read to
\* their return within one instant of the store's clock.
C10_ShortWindowDenies ==
    [][\A p \in Procs :
        (/\ Returns(p)
         /\ proc[p].op = "hier"
         /\ proc'[p].stamps[1] = now
         /\ Len(limits) = 2
         /\ limits[1][1] < limits[2][1] /\ limits[1][2] < limits[2][2]
         /\ WindowCount(allowed, HierKey(limits[1][1]), proc'[p].stamps[1],
                        limits[1][1]) >= limits[1][2])
        => (~proc'[p].ret /\ proc'[p].info.window = limits[1][1])]_vars

\* the damping factor of a pair of percentages, in hundredths
Damping(cpu, mem) ==
    LET load == IF cpu >= mem THEN cpu ELSE mem IN
    CASE load > 90 -> 50
      [] load > 70 /\ load <= 90 -> 75
      [] load > 50 /\ load <= 70 -> 90
      [] load <= 50 -> 100

\* caller p's update_load_factor call is this step
Updates(p) == proc'[p].op = "update" /\ proc'[p] # proc[p]

\* C11: load_factor is 1.0 before any update_load_factor call; each call sets
\* it to the threshold mapping of its own arguments, whatever it was (over 0.9
\* gives 0.5, over 0.7 gives 0.75, over 0.5 gives 0.9, else 1.0, of
\* max(cpu, memory) / 100); nothing else changes it, and it lies in (0, 1].
C11_LoadFactorOfLastUpdate ==
    [][/\ \A p \in Procs :
            Updates(p) =>
                load_factor' = Damping(proc'[p].cpu_usage, proc'[p].memory_usage)
       /\ (load_factor' # load_factor) => \E p \in Procs : Updates(p)
       /\ (\A p \in Procs : proc[p].pc = "idle") => load_factor = 100
       /\ 0 < load_factor' /\ load_factor' <= 100]_vars

\* an update at the threshold itself (90 per cent is not over 0.9) that
\* replaced a lower factor
C11_Witness ==
    \E p \in Procs :
        /\ proc[p].op = "update"
        /\ proc[p].cpu_usage = 90 /\ proc[p].memory_usage = 50
        /\ load_factor = 75

\* C12: check_adaptive_rate_limit decides as check_rate_limit does with the
\* quota floor(base_max_requests * load_factor): once that many calls were let
\* through with timestamps inside one window, the next call inside the window
\* is denied (after update_load_factor(95, 10) and with base 100, the 51st).
\* Stated for the calls that reach the store at the instant they read the clock.
C12_AdaptiveQuotaEnforced ==
    [][\A p \in Procs :
        (/\ Returns(p)
         /\ proc[p].op = "adaptive"
         /\ proc[p].current_time = now
         /\ load_factor < 100
         /\ proc[p].max = (max_requests * load_factor) \div 100
         /\ WindowCount(allowed, proc[p].key, proc[p].current_time,
                        proc[p].window) >= (max_requests * load_factor) \div 100)
        => ~proc'[p].ret]_vars

\* the calls let through on key k since the key was fresh
AllowedTotal(k) == SumOver(allowed[k], Time)

\* C13: get_rate_limit_info called after exactly n < limit check_rate_limit
\* calls were let through on a fresh key, all inside the window the query looks
\* at and with no store error, reports remaining = limit - n.  Stated for the
\* queries that run within one instant of the store's clock.
C13_RemainingAfterAllowed ==
    [][\A p \in Procs :
        (/\ Returns(p)
         /\ proc[p].op = "info"
         /\ proc[p].current_time = now
         /\ AllowedTotal(proc[p].key) < proc[p].max
         /\ \A t \in Time : allowed[proc[p].key][t] > 0 =>
                (proc[p].current_time - proc[p].window < t
                 /\ t <= proc[p].current_time))
        => proc'[p].info.remaining = proc[p].max - AllowedTotal(proc[p].key)]_vars

\* caller p's get_rate_limit_info call, made on its own, returns a dictionary
\* in this step without having met a store error
InfoReturns(p) ==
    /\ proc[p].op = "info" /\ proc[p].pc = "info_range"
    /\ proc'[p].pc = "done" /\ ~proc'[p].info_err

\* C14, as claimed: get_rate_limit_info called again with no check_rate_limit
\* call in between reports the remaining value it reported before, however far
\* apart in time the two calls are.  Stated for the queries that run within one
\* instant of the store's clock.
C14_RemainingNeverChanges ==
    [][\A p \in Procs :
        (InfoReturns(p) /\ proc[p].prev # NoInfo /\ proc[p].current_time = now)
        => proc'[p].info.remaining = proc[p].prev.remaining]_vars

\* C14, amended: get_rate_limit_info called again with no check_rate_limit or
\* reset_rate_limit call in between never reports a smaller remaining value than
\* before, and reports the same value when both calls read the same clock value
\* and the second runs within that instant of the store's clock.
C14_RemainingKeptWithinInstant ==
    [][\A p \in Procs :
        (InfoReturns(p) /\ proc[p].prev # NoInfo) =>
            /\ proc'[p].info.remaining >= proc[p].prev.remaining
            /\ (proc[p].prev_time = proc[p].current_time
                    /\ proc[p].current_time = now)
                => proc'[p].info.remaining = proc[p].prev.remaining]_vars

\* a second query within the instant of the first, on a key that holds entries
C14_Witness ==
    \E p \in Procs :
        /\ proc[p].op = "info" /\ proc[p].pc = "done" /\ ~proc[p].info_err
        /\ proc[p].prev # NoInfo
        /\ proc[p].prev_time = proc[p].current_time /\ proc[p].current_time = now
        /\ proc[p].info.remaining < proc[p].max
        /\ proc[p].info.remaining = proc[p].prev.remaining

\* caller p's get_rate_limit_info call, made on its own, takes a step
InfoSteps(p) ==
    /\ proc[p].op = "info"
    /\ proc[p].pc \in {"info_prune", "info_card", "info_range"}
    /\ proc'[p] # proc[p]

\* C15, as claimed: get_rate_limit_info leaves the key's entries and its TTL
\* as they were.
C15_InfoLeavesKey ==
    [][\A p \in Procs :
        InfoSteps(p) => (zsets' = zsets /\ ttl' = ttl)]_vars

\* C15, amended: get_rate_limit_info never adds an entry; it removes the
\* entries whose score is at most current_time - window_seconds and no other;
\* the TTL of a key that keeps an entry stays, and a key left with no entry is
\* gone with its TTL; no other key is touched.
C15_InfoOnlyPrunes ==
    [][\A p \in Procs :
        InfoSteps(p) =>
            LET k == proc[p].key
                stale == {e \in zsets[k] :
                            e.score <= proc[p].current_time - proc[p].window}
            IN  /\ zsets'[k] \subseteq zsets[k]
                /\ zsets[k] \ zsets'[k] \subseteq stale
                /\ proc[p].pc = "info_prune" => zsets'[k] = zsets[k] \ stale
                /\ zsets'[k] # {} => ttl'[k] = ttl[k]
                /\ zsets'[k] = {} => ttl'[k] = NoTTL
                /\ \A j \in Keys \ {k} : zsets'[j] = zsets[j] /\ ttl'[j] = ttl[j]]_vars

\* a query whose prune took an entry away has returned
C15_Witness ==
    \E p \in Procs :
        /\ proc[p].op = "info" /\ proc[p].pc = "done" /\ ~proc[p].info_err
        /\ proc[p].removed >= 1

\* C16: with no store error get_rate_limit_info reports reset = the oldest
\* surviving entry's score + window_seconds when an entry survives the prune,
\* and remaining = limit, reset = now + window_seconds when the key holds no
\* entry.  Stated for the queries that run within one instant of the store's
\* clock; the timestamps are whole, so that int() changes nothing.
C16_ResetFromOldestSurvivor ==
    [][\A p \in Procs :
        (InfoReturns(p) /\ proc[p].current_time = now) =>
            LET survivors == zsets[proc[p].key]
                d == proc'[p].info
            IN  /\ \A e \in survivors :
                        e.score > proc[p].current_time - proc[p].window
                /\ survivors # {} =>
                    /\ \E e \in survivors :
                        /\ \A f \in survivors : e.score <= f.score
                        /\ d.reset = e.score + proc[p].window
                    /\ d.limit = proc[p].max /\ d.window = proc[p].window
                /\ survivors = {} =>
                    /\ d.remaining = proc[p].max
                    /\ d.reset = proc[p].current_time + proc[p].window]_vars

\* a query has reported the reset time of an entry older than the query, on a
\* key that holds a younger entry too
C16_Witness ==
    \E p \in Procs :
        /\ proc[p].op = "info" /\ proc[p].pc = "done" /\ ~proc[p].info_err
        /\ proc[p].current_time = now
        /\ Cardinality(zsets[proc[p].key]) = 2
        /\ proc[p].info.reset < proc[p].current_time + proc[p].window
        /\ \E e \in zsets[proc[p].key] :
                proc[p].info.reset < e.score + proc[p].window

\* C17: when a store operation inside get_rate_limit_info fails, the call
\* returns all the same and reports the full quota: limit = max_requests,
\* remaining = max_requests, window = window_seconds.
C17_InfoFailsOpen ==
    \A p \in Procs :
        (proc[p].op = "info" /\ proc[p].info_err) =>
            /\ proc[p].pc = "done"
            /\ proc[p].info.limit = max_requests
            /\ proc[p].info.remaining = max_requests
            /\ proc[p].info.window = window_seconds

\* a query that met a store failure has reported the full quota of a key that
\* holds an entry
C17_Witness ==
    \E p \in Procs :
        /\ proc[p].op = "info" /\ proc[p].pc = "done" /\ proc[p].info_err
        /\ zsets[proc[p].key] # {}
        /\ proc[p].info.remaining = max_requests

\* caller p's reset_rate_limit call is this step
Resets(p) == proc'[p].op = "reset" /\ calls' = calls + 1

\* C18: reset_rate_limit(key) that meets no store failure deletes the key's
\* entries and TTL and returns True, also on a key that does not exist, whose
\* store it leaves as it was; on a store failure it returns False; it always
\* returns, and touches no other key.
C18_ResetDeletesKey ==
    [][\A p \in active :
        Resets(p) =>
            /\ proc'[p].pc = "done"
            /\ ~proc'[p].err =>
                /\ proc'[p].ret
                /\ zsets'[UserKey] = {} /\ ttl'[UserKey] = NoTTL
                /\ zsets[UserKey] = {} => (zsets' = zsets /\ ttl' = ttl)
            /\ proc'[p].err => ~proc'[p].ret
            /\ \A k \in Keys \ {UserKey} :
                    zsets'[k] = zsets[k] /\ ttl'[k] = ttl[k]]_vars

\* a reset has failed on a key that holds an entry, and has returned
C18_Witness ==
    \E p \in Procs :
        /\ proc[p].op = "reset" /\ proc[p].pc = "done"
        /\ proc[p].err /\ ~proc[p].ret
        /\ proc[p].current_requests >= 1 /\ zsets[UserKey] # {}

\* C19: after reset_rate_limit returned True on a key whose quota was used up
\* the key holds no entry, and the caller's next check_rate_limit on the key
\* (max_requests >= 1, same window) returns True.
C19_CheckAfterResetAllowed ==
    [][\A p \in active :
        /\ (Resets(p) /\ proc'[p].ret) => zsets'[UserKey] = {}
        /\ (Returns(p) /\ proc[p].op = "check" /\ proc[p].after_reset
                /\ proc[p].max >= 1)
            => (proc'[p].ret /\ ~proc'[p].err)]_vars

\* a check was let through after the reset of a key that held max_requests
\* entries, within the window of the youngest of them
C19_Witness ==
    \E p \in Procs :
        /\ proc[p].op = "check" /\ proc[p].pc = "done"
        /\ proc[p].after_reset /\ proc[p].ret
        /\ proc[p].current_time = 0

\* C20: a check_rate_limit call with window_seconds <= 0 and a
\* check_token_bucket call with a negative capacity issue no store command (the
\* batch is never executed, the hash is neither read nor written) and do not
\* return True.
C20_InvalidParametersRejected ==
    /\ \A p \in Procs :
        (proc[p].op = "check" /\ proc[p].window <= 0 /\ proc[p].pc = "done")
        => (~proc[p].ret /\ proc[p].stamps = <<>>)
    /\ capacity < 0 =>
        /\ ~bucket.exists
        /\ \A p \in Procs :
            /\ tb[p].pc \notin {"hmset", "expire"}
            /\ tb[p].pc = "done" => ~tb[p].ret

\* C21: with no store error a check_rate_limit call with max_requests = 0
\* returns False whatever the key holds, after the compensating removal: no
\* entry under the call's member is left.
C21_ZeroQuotaDenies ==
    [][\A p \in Procs :
        (Returns(p) /\ proc[p].op \in {"check", "adaptive"} /\ proc[p].max = 0)
        => /\ ~proc'[p].ret
           /\ proc[p].pc = "zrem"
           /\ \A e \in zsets'[proc[p].key] :
                e.member # Str(proc[p].current_time)]_vars

\* a call with the quota 0 was denied on a key that holds an entry of an
\* earlier call
C21_Witness ==
    \E p \in Procs :
        /\ proc[p].pc = "done" /\ proc[p].op = "adaptive" /\ proc[p].max = 0
        /\ ~proc[p].ret
        /\ zsets[proc[p].key] # {}

\* C22: in the query handler a request whose check_rate_limit returned False
\* is answered with HTTP 429 and reaches neither the cache lookup nor the
\* vector search nor the RAG generation; only requests whose check returned
\* True go on to them, and only denied requests get HTTP 429.
C22_DeniedRequestStops ==
    \A p \in Procs :
        proc[p].op = "query" =>
            /\ (proc[p].pc \in {"cache", "search", "rag", "setex"}
                    \/ proc[p].reached # {}) => proc[p].ret
            /\ (proc[p].pc = "done" /\ ~proc[p].ret)
                => (proc[p].status = 429 /\ proc[p].reached = {})
            /\ proc[p].status = 429 => (~proc[p].ret /\ ~proc[p].err)

\* a request was denied by the quota and answered with HTTP 429
C22_Witness ==
    \E p \in Procs :
        /\ proc[p].op = "query" /\ proc[p].pc = "done"
        /\ proc[p].status = 429 /\ proc[p].counts = <<max_requests>>
        /\ proc[p].reached = {}

\* the members a sorted set holds
Members(z) == {e.member : e \in z}

\* caller p's check_rate_limit call executes its batch in this step
Executes(p) ==
    /\ proc[p].op = "check" /\ proc[p].pc = "execute"
    /\ proc'[p] # proc[p]

\* what the prune of the batch leaves of the key's set
PrunedBefore(p) ==
    ZRemRangeByScore(zsets[proc[p].key], 0,
                     proc[p].current_time - proc[p].window)

\* C23: with no store error check_rate_limit returns False exactly when the
\* count after the prune and before the add is >= max_requests; the
\* compensating removal of a denied call leaves the pruned set that was there
\* before its add, and an allowed call leaves the pruned set and one entry more.
C23_DecisionAndRemoval ==
    [][\A p \in Procs :
        /\ Executes(p) =>
            /\ proc'[p].pc = "zrem"
                    <=> Cardinality(PrunedBefore(p)) >= proc[p].max
            /\ proc'[p].pc = "done" =>
                /\ proc'[p].ret
                /\ PrunedBefore(p) \subseteq zsets'[proc[p].key]
                /\ Cardinality(zsets'[proc[p].key])
                        = Cardinality(PrunedBefore(p)) + 1
        /\ (proc[p].op = "check" /\ proc[p].pc = "zrem" /\ proc'[p].pc = "done") =>
            /\ ~proc'[p].ret
            /\ Cardinality(zsets'[proc[p].key]) = proc[p].current_requests]_vars

\* C24: the member a check_rate_limit call adds is distinct from every member
\* the key's set holds, also when an earlier call read the same timestamp.
C24_MemberIsNew ==
    [][\A p \in Procs :
        Executes(p) => Str(proc[p].current_time) \notin Members(PrunedBefore(p))]_vars

\* caller p's call prunes the key's set in this step: the batch of
\* check_rate_limit or the zremrangebyscore of get_rate_limit_info
Prunes(p) ==
    /\ proc[p].pc \in {"execute", "info_prune"}
    /\ proc'[p] # proc[p]
    /\ ~proc'[p].err

\* C25: the prune of check_rate_limit and of get_rate_limit_info removes
\* the entries with score in [0, now - window_seconds) and no other: an entry
\* whose score is now - window_seconds survives it.
C25_PruneIsHalfOpen ==
    [][\A p \in Procs :
        Prunes(p) =>
            \A e \in zsets[proc[p].key] :
                e.member # Str(proc[p].current_time) =>
                    (e \in zsets'[proc[p].key]
                        <=> e.score >= proc[p].current_time - proc[p].window)]_vars

\* the entries of key k that are stale at the time of the step and gone after it
StaleRemoved(k) ==
    {e \in zsets[k] : /\ e.score < now' - window_seconds
                      /\ e.member \notin Members(zsets'[k])}

\* a check_rate_limit or get_rate_limit_info call on key k takes a store step
LazyStep(k) ==
    \E p \in Procs :
        /\ proc[p].op \in {"check", "info"} /\ proc[p].key = k
        /\ proc[p].pc \in {"execute", "zrem", "info_prune"}
        /\ proc'[p] # proc[p]

\* the store expires key k as the clock advances
Expires(k) == now' = now + 1 /\ ttl[k] # NoTTL /\ ttl[k] <= now'

\* a check_rate_limit or get_rate_limit_info call returns with no store error
\* and the key's set holds nothing older than its window
FreshAtReturn ==
    \A p \in Procs :
        (/\ Returns(p) /\ proc[p].op \in {"check", "info"}
         /\ ~proc'[p].err) =>
            \A e \in zsets'[proc[p].key] :
                e.score >= proc[p].current_time - proc[p].window

\* C26 as stated: after a check_rate_limit or get_rate_limit_info call that
\* met no store error the set holds only entries with timestamp
\* >= now - window_seconds, and a stale entry is removed by such a call only.
C26_StaleRemovedOnlyByCalls ==
    [][/\ FreshAtReturn
       /\ \A k \in Keys : StaleRemoved(k) # {} => LazyStep(k)]_vars

\* C26: after a check_rate_limit or get_rate_limit_info call that met no
\* store error the set holds only entries with timestamp
\* >= now - window_seconds; a stale entry leaves the set only by a store step
\* of such a call, by reset_rate_limit, or by the store expiring the whole key.
C26_StaleRemovedLazilyOrWithKey ==
    [][/\ FreshAtReturn
       /\ \A k \in Keys :
            StaleRemoved(k) # {} =>
                \/ LazyStep(k)
                \/ \E p \in Procs : Resets(p) /\ k = UserKey
                \/ Expires(k)]_vars

C26_Witness ==
    \E p \in Procs :
        /\ proc[p].op = "info" /\ proc[p].pc = "done" /\ ~proc[p].err
        /\ proc[p].removed >= 1
        /\ zsets[proc[p].key] # {}
        /\ \A e \in zsets[proc[p].key] :
                e.score >= proc[p].current_time - proc[p].window

\* C27: the batch of every check_rate_limit call, allowed or denied, sets the
\* key's time to live to window_seconds from the time the store runs it; the
\* store keeps the key until then and drops it when the time is reached, and a
\* key whose time to live is not refreshed is eventually gone.
C27_TTLSetAndKeyExpires ==
    /\ [][/\ \A p \in Procs :
              (Executes(p) /\ ~proc'[p].err) =>
                  ttl'[proc[p].key] = now + proc[p].window
          /\ \A k \in Keys :
              (now' = now + 1 /\ ttl[k] # NoTTL) =>
                  IF ttl[k] <= now'
                  THEN zsets'[k] = {} /\ ttl'[k] = NoTTL
                  ELSE zsets'[k] = zsets[k] /\ ttl'[k] = ttl[k]]_vars
    /\ \A k \in Keys : \A T \in Time :
          (zsets[k] # {} /\ ttl[k] = T) ~> (zsets[k] = {} \/ ttl[k] > T)

C27_Witness ==
    /\ calls = 1 /\ proc["p1"].op = "check" /\ proc["p1"].pc = "done"
    /\ proc["p1"].ret /\ ~proc["p1"].err
    /\ now >= proc["p1"].current_time + proc["p1"].window
    /\ zsets[UserKey] = {} /\ ttl[UserKey] = NoTTL

\* C28: a granted check_token_bucket call persists (available -
\* tokens_requested, now) and sets the key's time to live to
\* floor(capacity / refill_rate) + 60 seconds; a denied call persists
\* (available, now): it takes no token away, and for a call whose clock is not
\* behind the stored last_refill the stored tokens do not go down.
C28_PersistedState ==
    [][\A p \in Procs :
        /\ (tb[p].pc = "hmset" /\ tb'[p] # tb[p]) =>
            LET available == Available(bucket, tb[p].current_time)
                before == IF bucket.exists THEN bucket.tokens ELSE capacity
                last == IF bucket.exists THEN bucket.last_refill
                        ELSE tb[p].current_time
            IN  /\ bucket'.exists
                /\ bucket'.last_refill = tb[p].current_time
                /\ bucket'.tokens =
                        IF available >= tb[p].tokens_requested
                        THEN available - tb[p].tokens_requested
                        ELSE available
                /\ (available < tb[p].tokens_requested
                        /\ tb[p].current_time >= last)
                    => (~tb'[p].ret /\ bucket'.tokens >= before)
        /\ (tb[p].pc = "expire" /\ tb'[p].pc = "done" /\ tb'[p].why = "none") =>
            /\ tb'[p].ret
            /\ bucket_ttl' = now + (capacity \div refill_rate) + TtlMargin]_vars

\* a denied call stored the tokens refilled since the last call
C28_Witness ==
    \E p \in Procs :
        /\ tb[p].pc = "done" /\ tb[p].why = "none" /\ ~tb[p].ret
        /\ tb[p].new_tokens > tb[p].current_tokens
        /\ bucket.exists /\ bucket.tokens = tb[p].new_tokens
        /\ bucket.last_refill = tb[p].current_time

\* C29: the hash read and the hash write of check_token_bucket are separate
\* store steps: the read leaves the bucket as it is, and the write stores what
\* the call computed from its own read, whatever another call wrote in between.
C29_WriteFromOwnRead ==
    [][\A p \in Procs :
        /\ (tb[p].pc = "hmget" /\ tb'[p] # tb[p]) =>
            /\ bucket' = bucket
            /\ tb'[p].pc = "hmset"
            /\ tb'[p].current_tokens
                    = (IF bucket.exists THEN bucket.tokens ELSE capacity)
            /\ tb'[p].last_refill
                    = (IF bucket.exists THEN bucket.last_refill
                       ELSE tb[p].current_time)
        /\ (tb[p].pc = "hmset" /\ tb'[p] # tb[p]) =>
            LET refilled == tb[p].current_tokens
                    + (tb[p].current_time - tb[p].last_refill) * refill_rate
                available == IF refilled < capacity THEN refilled ELSE capacity
            IN  bucket'.tokens =
                    IF available >= tb[p].tokens_requested
                    THEN available - tb[p].tokens_requested
                    ELSE available]_vars

\* both callers read the same full bucket, both asked for capacity tokens and
\* both were granted: twice what the bucket held
C29_Witness ==
    /\ \A p \in Procs :
        /\ tb[p].pc = "done" /\ tb[p].why = "none" /\ tb[p].ret
        /\ tb[p].tokens_requested = capacity
        /\ tb[p].current_tokens = capacity
        /\ tb[p].new_tokens = capacity
    /\ tb["p1"].last_refill = tb["p2"].last_refill
    /\ tb["p1"].current_time = tb["p2"].current_time
    /\ calls = 2
    /\ bucket.exists /\ bucket.tokens = 0

\* caller p's check_hierarchical_limits call takes a step
HierSteps(p) == proc[p].op = "hier" /\ proc'[p] # proc[p] /\ proc'[p].op = "hier"

\* the step is the batch that finds the quota of the current WindowSpec
\* reached, or a later step of the call so denied
DeniedStep(p) ==
    /\ HierSteps(p)
    /\ \/ proc[p].pc = "execute" /\ proc'[p].pc = "zrem"
       \/ proc[p].pc \in {"zrem", "info_prune", "info_card", "info_range"}

\* key k is as it was
KeyUnchanged(k) == zsets'[k] = zsets[k] /\ ttl'[k] = ttl[k]

\* C30 as stated: a check_hierarchical_limits call denied at position i
\* leaves the key of every later position unchanged.  Stated for the calls
\* whose timestamp no entry of the key carries, which add a member of their own.
C30_LaterKeysUnchanged ==
    [][\A p \in Procs :
        (/\ DeniedStep(p)
         /\ proc[p].pc = "execute"
            => Str(proc[p].current_time) \notin Members(zsets[proc[p].key])
         /\ proc[p].pc = "zrem"
            => [member |-> Str(proc[p].current_time),
                score |-> proc[p].current_time] \notin zsets[proc[p].key]
               \/ Cardinality(zsets[proc[p].key]) > proc[p].current_requests) =>
            \A j \in (proc[p].idx + 1)..Len(limits) :
                KeyUnchanged(HierKey(limits[j][1]))]_vars

\* C30: every store step of a check_hierarchical_limits call is on the key of
\* the position it is at, and a call denied at position i never moves to a
\* later position; so it leaves unchanged the key of every later position
\* whose window is not the window of a position up to i.
C30_LaterWindowsUntouched ==
    [][\A p \in Procs :
        /\ HierSteps(p) =>
            /\ proc[p].key = HierKey(limits[proc[p].idx][1])
            /\ \A k \in Keys : k # proc[p].key => KeyUnchanged(k)
        /\ DeniedStep(p) =>
            /\ proc'[p].idx = proc[p].idx
            /\ proc'[p].key = proc[p].key
            /\ \A j \in (proc[p].idx + 1)..Len(limits) :
                (\A m \in 1..proc[p].idx : limits[m][1] # limits[j][1])
                    => KeyUnchanged(HierKey(limits[j][1]))]_vars

\* a call is denied at the first position while the key of the second, a
\* different window, holds the entry of an earlier call
C30_Witness ==
    \E p \in Procs :
        /\ proc[p].op = "hier" /\ proc[p].pc = "done" /\ ~proc[p].ret
        /\ Len(proc[p].counts) = 1 /\ Len(limits) = 2
        /\ limits[1][1] # limits[2][1]
        /\ zsets[HierKey(limits[2][1])] # {}

\* the key of position m of the policy
PosKey(m) == HierKey(limits[m][1])

\* the entry a check made at time t adds
Entry(t) == [member |-> Str(t), score |-> t]

\* caller p's check_hierarchical_limits call makes its compensating removal
HierZrems(p) ==
    /\ proc[p].op = "hier" /\ proc[p].pc = "zrem"
    /\ proc'[p] # proc[p] /\ ~proc'[p].err

\* caller p's check_hierarchical_limits call passes the position it is at
HierPasses(p) ==
    /\ proc[p].op = "hier" /\ proc[p].pc = "execute"
    /\ proc'[p] # proc[p] /\ proc'[p].pc # "zrem" /\ ~proc'[p].err

\* C31 as stated: the compensating removal of a call denied at position i
\* takes away no entry the request added at an earlier position, and
\* afterwards the log of the violated window holds no entry of the request.
C31_NoRollbackAndCleared ==
    [][\A p \in Procs :
        HierZrems(p) =>
            /\ \A m \in 1..(proc[p].idx - 1) :
                Entry(proc[p].stamps[m]) \in zsets[PosKey(m)]
                    => Entry(proc[p].stamps[m]) \in zsets'[PosKey(m)]
            /\ Str(proc[p].current_time) \notin Members(zsets'[proc[p].key])
            /\ \A m \in 1..(proc[p].idx - 1) :
                PosKey(m) = proc[p].key
                    => Str(proc[p].stamps[m]) \notin Members(zsets'[proc[p].key])]_vars

\* C31: a position that is passed adds the request's entry to its log; the
\* steps of a denial at position i leave the log of every earlier position
\* with another window as it is (no rollback), and the compensating removal
\* takes the entry added at position i out of the violated window's log.
C31_NoRollbackOtherWindows ==
    [][\A p \in Procs :
        /\ HierPasses(p) =>
            Entry(proc[p].current_time) \in zsets'[proc[p].key]
        /\ DeniedStep(p) =>
            \A m \in 1..(proc[p].idx - 1) :
                limits[m][1] # limits[proc[p].idx][1]
                    => KeyUnchanged(PosKey(m))
        /\ HierZrems(p) =>
            Str(proc[p].current_time) \notin Members(zsets'[proc[p].key])]_vars

\* a call denied at the second position of a policy with two windows: the
\* first log holds the entry of the request, the second does not
C31_Witness ==
    \E p \in Procs :
        /\ proc[p].op = "hier" /\ proc[p].pc = "done" /\ ~proc[p].ret
        /\ Len(proc[p].stamps) = 2
        /\ limits[1][1] # limits[2][1]
        /\ Entry(proc[p].stamps[1]) \in zsets[PosKey(1)]
        /\ Str(proc[p].stamps[2]) \notin Members(zsets[PosKey(2)])
        /\ zsets[PosKey(2)] # {}

\* how many entries the log of position m holds
PosCount(z, m) == Cardinality(z[PosKey(m)])

\* C32 as stated: under every policy, a check against one WindowSpec never
\* changes the entry count another WindowSpec of the policy sees.
C32_CountsIndependent ==
    [][\A p \in Procs :
        HierSteps(p) =>
            \A m \in DOMAIN limits :
                m # proc[p].idx => PosCount(zsets', m) = PosCount(zsets, m)]_vars

\* C32: a check against one WindowSpec never changes the entry count seen by
\* a WindowSpec of the policy that has another window; WindowSpecs with the
\* same window are counted on one key.
C32_CountsIndependentPerWindow ==
    [][\A p \in Procs :
        HierSteps(p) =>
            \A m \in DOMAIN limits :
                IF limits[m][1] # limits[proc[p].idx][1]
                THEN PosCount(zsets', m) = PosCount(zsets, m)
                ELSE PosKey(m) = proc[p].key]_vars

\* the two logs of a policy with two windows hold different counts
C32_Witness ==
    \E p \in Procs :
        /\ proc[p].op = "hier" /\ proc[p].pc = "done" /\ ~proc[p].ret
        /\ Len(limits) = 2 /\ limits[1][1] # limits[2][1]
        /\ PosCount(zsets, 1) = 2 /\ PosCount(zsets, 2) = 1

\* C33: after one reset_rate_limit and one check_rate_limit on the same key,
\* in whatever order their store steps ran, the key holds at most one entry,
\* and a key that holds one has a time to live of at most window_seconds.
C33_ResetRaceLeavesOneEntry ==
    \A p \in Procs : \A r \in Procs \ {p} :
        (/\ proc[p].op = "check" /\ proc[p].pc = "done" /\ ~proc[p].err
         /\ proc[p].reset_at \in {"before", "during", "after"}
         /\ proc[r].op = "reset" /\ proc[r].pc = "done" /\ proc[r].ret) =>
            /\ Cardinality(zsets[UserKey]) <= 1
            /\ zsets[UserKey] # {} =>
                (ttl[UserKey] # NoTTL /\ ttl[UserKey] <= now + window_seconds)

\* the reset deleted a key that held entries between the clock read and the
\* batch of a check, whose entry is the one the key holds
C33_Witness ==
    \E p \in Procs : \E r \in Procs \ {p} :
        /\ proc[p].op = "check" /\ proc[p].pc = "done" /\ proc[p].ret
        /\ proc[p].reset_at = "during"
        /\ proc[r].op = "reset" /\ proc[r].pc = "done" /\ proc[r].ret
        /\ proc[r].current_requests >= 1
        /\ zsets[UserKey] = {Entry(proc[p].current_time)}

\* the calls that returned True on key k with a timestamp no more than w
\* before ts
LetThrough(a, k, ts, w) == SumOver(a[k], {t \in Time : t >= ts - w})

\* the batch of caller p's check_rate_limit call finds the quota reached
Denies(p) ==
    /\ proc[p].op = "check" /\ proc[p].pc = "execute"
    /\ proc'[p].pc = "zrem"

\* C34 as stated: check_rate_limit denies only when max_requests calls or
\* more returned True with timestamps inside the current window, also while
\* another call's entry awaits its compensating removal and after a
\* compensating removal that failed.
C34_NoUnderAdmission ==
    [][\A p \in Procs :
        Denies(p) =>
            LetThrough(allowed, proc[p].key, proc[p].current_time,
                       proc[p].window) >= proc[p].max]_vars

\* C34: check_rate_limit denies only when max_requests calls or more returned
\* True with timestamps inside the current window, provided no other call is
\* between its batch and its compensating removal; a compensating removal that
\* failed leaves the entry of a call that returned True.
C34_NoUnderAdmissionWhenSettled ==
    [][\A p \in Procs :
        /\ (Denies(p) /\ \A r \in Procs \ {p} : proc[r].pc # "zrem") =>
            LetThrough(allowed, proc[p].key, proc[p].current_time,
                       proc[p].window) >= proc[p].max
        /\ (proc[p].op = "check" /\ proc[p].pc = "zrem" /\ proc'[p].err) =>
            (proc'[p].pc = "done" /\ proc'[p].ret)]_vars

\* a call is denied on the entry that a call whose compensating removal
\* failed left behind
C34_Witness ==
    \E p \in Procs : \E r \in Procs \ {p} :
        /\ proc[p].op = "check" /\ proc[p].pc = "done" /\ ~proc[p].ret
        /\ proc[r].op = "check" /\ proc[r].pc = "done" /\ proc[r].ret
        /\ proc[r].err /\ proc[r].current_requests >= proc[r].max
        /\ Entry(proc[r].current_time) \in zsets[UserKey]
        /\ proc[p].current_time > proc[r].current_time

\* by how much a caller's clock can be ahead of the store's
Ahead == IF \E d \in lags : d < 0 THEN 0 - (CHOOSE d \in lags : \A c \in lags : d <= c)
         ELSE 0

GrantedBetween(p, t0, t1) ==
    SumOver(tb[p].granted, {t \in Time : t0 <= t /\ t <= t1})

\* C36: for check_token_bucket calls made one after the other with a clock
\* that never goes back, the tokens granted between two instants t0 <= t1
\* never exceed capacity + (t1 - t0) * refill_rate.
C36_GrantedWithinRefill ==
    \A p \in Procs : \A t0 \in Time : \A t1 \in Time :
        t0 <= t1 =>
            GrantedBetween(p, t0, t1) <= capacity + (t1 - t0) * refill_rate

\* three calls drew all that a refilling bucket can give over a span
C36_Witness ==
    \E p \in Procs : \E t0 \in Time : \E t1 \in Time :
        /\ t0 < t1 /\ refill_rate >= 1 /\ calls = 3 /\ tb[p].pc = "done"
        /\ tb[p].granted[t0] > 0 /\ tb[p].granted[t1] > 0
        /\ GrantedBetween(p, t0, t1) = capacity + (t1 - t0) * refill_rate

\* C37: after a check_token_bucket call that wrote the bucket and met no
\* error, granted or denied, the key has a time to live.  Stated for
\* refill_rate >= 1, for which capacity / refill_rate is defined.
C37_WrittenBucketHasTTL ==
    \A p \in Procs :
        (/\ tb[p].pc = "done" /\ tb[p].why = "none"
         /\ bucket.exists /\ refill_rate >= 1)
            => bucket_ttl # NoTTL

\* the largest difference between two reads of the clock at one instant
ClockSpread ==
    CHOOSE m \in {a - b : a, b \in lags} : \A a, b \in lags : a - b <= m

\* p's hmget reads a key that has expired
ReadsExpired(p) ==
    /\ tb[p].pc = "hmget" /\ tb'[p].pc = "hmset"
    /\ ~bucket.exists /\ bucket.bad = "expired"

\* the decision the call would take on the fields the key held
KeptDecision(p) ==
    Granted(NewTokens(capacity, bucket.tokens, bucket.last_refill,
                      tb'[p].current_time, refill_rate),
            tb'[p].tokens_requested)

\* the decision the call takes
Decision(p) == Granted(tb'[p].new_tokens, tb'[p].tokens_requested)

DistinctWindows ==
    \A m, n \in DOMAIN limits : m # n => limits[m][1] # limits[n][1]

\* C39: under a policy with pairwise distinct windows and with no store error,
\* the check_hierarchical_limits calls that returned (True, None) with
\* timestamps inside one span of a WindowSpec's window never number more than
\* its quota.  Stated at each return of a call that ran from its first clock
\* read to its return within one instant of the store's clock.
C39_HierAtMostMaxPerSpan ==
    [][\A p \in Procs :
        (/\ Returns(p)
         /\ proc[p].op = "hier"
         /\ proc'[p].stamps[1] = now
         /\ DistinctWindows)
        => \A m \in DOMAIN limits : \A s \in Time :
            SumOver(allowed'[PosKey(m)],
                    {t \in Time : s <= t /\ t < s + limits[m][1]})
                <= limits[m][2]]_vars

\* C40: check_hierarchical_limits never returns (False, info) with
\* info["remaining"] > 0, whatever happens between the denied check and the
\* get_rate_limit_info that follows it.  Stated for the policies whose windows
\* are pairwise distinct, where no two WindowSpecs share a key.
C40_DenialReportsNoneRemaining ==
    \A p \in Procs :
        (/\ proc[p].op = "hier" /\ proc[p].pc = "done" /\ ~proc[p].ret
         /\ DistinctWindows)
            => proc[p].info.remaining = 0
====
